---- MODULE Spec2Model ----
(***************************************************************************)
(* mistral-ocr: the OCR service abstraction (base.py), the Mistral         *)
(* provider (mistral.py) and the construction step of the CLI              *)
(* (__main__.py), as one sequential state machine.                         *)
(*                                                                         *)
(* Optional values are records: None, or Some(v).  Python strings are TLA+ *)
(* strings; a pathlib.Path is a record [parent, stem, suffix].  The remote *)
(* service and the file system are the environment: each of their          *)
(* operations either succeeds or raises, chosen nondeterministically.      *)
(***************************************************************************)
EXTENDS Integers, Sequences, FiniteSets, TLC

VARIABLES
  pc,                   \* position of the single thread of control
  environ,              \* __init__: what os.environ.get("MISTRAL_API_KEY") gives
  api_key,              \* __init__: the api_key argument
  service,              \* the constructed service object, or None
  file_paths,           \* process_files argument
  output_dir,           \* process_files argument
  include_image_base64, \* process_files keyword option
  idx,                  \* position of the for loop in file_paths
  results,              \* the accumulating list of process_files
  frame,                \* locals of the running process_file call
  exc,                  \* the exception in flight, or None
  ret,                  \* the value process_file returned, or None
  fs,                   \* output side of the file system: [dirs, files]
  events,               \* I/O operations of the running process_file call
  wrote,                \* files created by the running process_file call
  calls,                \* paths process_file was invoked with, in order
  raisedLog             \* per finished call: the exception it raised, or None

vars == <<pc, environ, api_key, service, file_paths, output_dir,
          include_image_base64, idx, results, frame, exc, ret, fs, events,
          wrote, calls, raisedLog>>

\* ---------------------------------------------------------------- bounds
MaxFiles == 3

\* ------------------------------------------------------- values and paths
None == [none |-> TRUE]
Some(v) == [some |-> v]
\* faulty variant: the credential test as "is not None" instead of truthiness
TruthyNotNone(v) == v # None
\* Python truthiness of an Optional[str]
Truthy(v) == v # None /\ v.some # ""

MkPath(parent, stem, suffix) == [parent |-> parent, stem |-> stem, suffix |-> suffix]
\* str(path)
PathStr(p) == p.parent \o "/" \o p.stem \o p.suffix
\* path.name
PathName(p) == p.stem \o p.suffix

\* the input files of the model: two share a stem, the suffixes cover upper
\* case, an image type and a document type
Paths == { MkPath("a", "x", ".pdf"), MkPath("b", "x", ".PNG"), MkPath("b", "y", ".jpg") }
OutDirs == { "out" }
Credentials == { None, Some(""), Some("k") }
\* include_image_base64 as the command line leaves it; the flag is only
\* handed on to the OCR request and copied into the metadata
IncludeImageOptions == { FALSE }

\* str.lower() on the suffixes in use
Lower(s) == CASE s = ".PNG" -> ".png"
              [] s = ".JPG" -> ".jpg"
              [] s = ".PDF" -> ".pdf"
              [] OTHER -> s
\* str.lstrip(".") on a suffix
LStripDot(s) == CASE s = ".png" -> "png"
                  [] s = ".jpg" -> "jpg"
                  [] s = ".jpeg" -> "jpeg"
                  [] s = ".pdf" -> "pdf"
                  [] OTHER -> s

SeqsUpTo(S, n) == UNION { [1..k -> S] : k \in 0..n }

\* ------------------------------------------------------------- exceptions
Exception(type, msg) == [type |-> type, msg |-> msg]
\* str(e)
Str(e) == e.msg

\* what open() can raise on the input file
OpenErrors(p) ==
  { Exception("FileNotFoundError",
              "[Errno 2] No such file or directory: '" \o PathStr(p) \o "'"),
    Exception("PermissionError",
              "[Errno 13] Permission denied: '" \o PathStr(p) \o "'") }
\* what a call of the Mistral client can raise
RemoteErrors == { Exception("SDKError", "API error occurred: Status 401") }
\* what mkdir / write_text / open("w") / json.dump can raise; a write that
\* raises is taken to leave its file as it was
WriteErrors == { Exception("OSError", "[Errno 28] No space left on device") }

\* ------------------------------------------------------ the remote service
\* OCR responses: a list of pages, each with its markdown; a response
\* without a pages attribute stands for a malformed one
Responses == { [pages |-> <<>>], [pages |-> <<"A", "B">>], [malformed |-> TRUE] }
HasPages(r) == "pages" \in DOMAIN r


\* ------------------------------------------------------------- OCRResult
OCRResult(content, metadata, output_path) ==
  [content |-> content, metadata |-> metadata, output_path |-> output_path]

\* --------------------------------------------------- MistralOCRService
provider_name == "mistral"
DefaultModel == "mistral-ocr-latest"

image_extensions == { ".png", ".jpg", ".jpeg", ".avif", ".gif", ".bmp", ".tiff", ".tif" }

\* faulty variant: the extension test without lower()
IsImageCaseSensitive(p) == p.suffix \in image_extensions
_is_image_file(p) == Lower(p.suffix) \in image_extensions

\* the outcomes of _encode_file_to_base64: the encoded bytes, or the
\* exception its except clauses turn the failure of open()/read() into
EncodeRaises(p, e) ==
  IF e.type = "FileNotFoundError"
  THEN Exception("FileNotFoundError", "File not found: " \o PathStr(p))
  ELSE Exception("RuntimeError",
                 "Error encoding file " \o PathStr(p) \o ": " \o Str(e))

Base64Of(p) == "base64(" \o PathStr(p) \o ")"

MimeType(p) ==
  LET m == "image/" \o LStripDot(Lower(p.suffix))
  IN  IF m = "image/jpg" THEN "image/jpeg" ELSE m

ImageDocument(p) ==
  [type |-> "image_url",
   image_url |-> "data:" \o MimeType(p) \o ";base64," \o Base64Of(p)]

DocumentUrl(signed_url) ==
  [type |-> "document_url", document_url |-> signed_url.url]

UploadedFile(p) == [id |-> "file-" \o PathName(p)]
SignedUrl(uploaded) == [url |-> "https://signed/" \o uploaded.id]

\* "\n\n".join(page.markdown for page in pages)
RECURSIVE JoinPages(_)
JoinPages(pages) ==
  IF Len(pages) = 0 THEN ""
  ELSE IF Len(pages) = 1 THEN pages[1]
  ELSE pages[1] \o "\n\n" \o JoinPages(Tail(pages))

_extract_content_from_response(ocr_response) == JoinPages(ocr_response.pages)

\* faulty variant: an empty extraction is marked as an error in the metadata
CreateMetadataMarksEmpty(self, ocr_response, source_path, inc) ==
  LET metadata == [scheme |-> "mistral_ocr",
                   provider |-> provider_name,
                   model |-> self.model,
                   source_file |-> PathStr(source_path),
                   include_image_base64 |-> inc]
  IN  IF HasPages(ocr_response) /\ Len(ocr_response.pages) > 0
      THEN ("pages" :> Len(ocr_response.pages)) @@ metadata
      ELSE ("error" :> "no pages") @@ metadata

_create_metadata(self, ocr_response, source_path, inc) ==
  LET metadata == [scheme |-> "mistral_ocr",
                   provider |-> provider_name,
                   model |-> self.model,
                   source_file |-> PathStr(source_path),
                   include_image_base64 |-> inc]
  IN  IF HasPages(ocr_response) /\ Len(ocr_response.pages) > 0
      THEN ("pages" :> Len(ocr_response.pages)) @@ metadata
      ELSE metadata

\* the order json.dump writes the keys in: the dict's insertion order
KeyOrder == << "scheme", "provider", "model", "source_file",
               "include_image_base64", "pages" >>
\* json.dump(metadata): the key/value pairs of the object, in order
JsonDump(metadata) ==
  LET keep(k) == k \in DOMAIN metadata
  IN  [i \in 1..Len(SelectSeq(KeyOrder, keep)) |->
         << SelectSeq(KeyOrder, keep)[i], metadata[SelectSeq(KeyOrder, keep)[i]] >>]
\* json.load(text): the object the pairs describe
JsonLoad(text) ==
  [k \in { text[i][1] : i \in 1..Len(text) } |->
     LET i == CHOOSE j \in 1..Len(text) : text[j][1] = k IN text[i][2]]

\* faulty variant: the output named by file_path.name instead of file_path.stem
MdPathFromName(dir, p) == MkPath(dir, PathName(p) \o ".ocr", ".md")
\* output_dir / f"{file_path.stem}.ocr.md" and its metadata sibling
MdPath(dir, p) == MkPath(dir, p.stem \o ".ocr", ".md")
JsonPath(dir, p) == MkPath(dir, p.stem \o ".ocr", ".json")

\* ---------------------------------------------------------- file system
EmptyFiles == [f \in {} |-> ""]
WriteFile(files, name, data) == (name :> data) @@ files
Exists(name) == name \in DOMAIN fs.files

\* ------------------------------------------------------------ the state
NoFrame == [file_path |-> None, document |-> None, uploaded_file |-> None,
            content |-> "", metadata |-> None, output_path |-> None]

Event(op, ok) == [op |-> op, ok |-> ok]

Init ==
  /\ pc = "start"
  /\ environ \in Credentials
  /\ api_key \in Credentials
  /\ service = None
  /\ file_paths = << >>
  /\ output_dir = None
  /\ include_image_base64 = FALSE
  /\ idx = 0
  /\ results = << >>
  /\ frame = NoFrame
  /\ exc = None
  /\ ret = None
  /\ fs = [dirs |-> {}, files |-> EmptyFiles]
  /\ events = << >>
  /\ wrote = {}
  /\ calls = << >>
  /\ raisedLog = << >>

\* ------------------------------------------------------------- __init__
\* api_key or os.environ.get("MISTRAL_API_KEY")
ResolveKey(arg, env) == IF Truthy(arg) THEN arg ELSE env

\* MistralOCRService.__init__, as called by ocr() and by library callers.
\* Its two inputs are kept while the constructor runs and when it raises;
\* once it returned, the service object holds the resolved key.
Construct ==
  /\ pc = "start"
  /\ LET key == ResolveKey(api_key, environ) IN
       IF ~Truthy(key)
       THEN /\ pc' = "config_error"
            /\ exc' = Exception("ValueError",
                 "MISTRAL_API_KEY environment variable must be set or api_key provided")
            /\ UNCHANGED <<service, api_key, environ>>
       ELSE \/ /\ pc' = "ready"
               /\ service' = [model |-> DefaultModel, api_key |-> key.some]
               /\ api_key' = None
               /\ environ' = None
               /\ exc' = None
            \/ \E e \in RemoteErrors :
               /\ pc' = "client_error"
               /\ exc' = Exception("RuntimeError",
                    "Error initializing Mistral client: " \o Str(e))
               /\ UNCHANGED <<service, api_key, environ>>
  /\ UNCHANGED <<file_paths, output_dir, include_image_base64, idx,
                 results, frame, ret, fs, events, wrote, calls, raisedLog>>


\* ---------------------------------------------------------- process_files
\* process_files(file_paths, output_dir, include_image_base64=...) is
\* called on the constructed service: results = []
ProcessFiles ==
  /\ pc = "ready"
  /\ \E fp \in SeqsUpTo(Paths, MaxFiles),
        od \in {None} \cup { Some(d) : d \in OutDirs },
        inc \in IncludeImageOptions :
       /\ file_paths' = fp
       /\ output_dir' = od
       /\ include_image_base64' = inc
  /\ results' = << >>
  /\ idx' = 1
  /\ pc' = "loop"
  /\ UNCHANGED <<environ, api_key, service, frame, exc, ret, fs, events,
                 wrote, calls, raisedLog>>

\* for file_path in file_paths: ... self.process_file(file_path, ...)
LoopCall ==
  /\ pc = "loop"
  /\ idx <= Len(file_paths)
  /\ frame' = [NoFrame EXCEPT !.file_path = file_paths[idx]]
  /\ calls' = Append(calls, file_paths[idx])
  /\ pc' = "pf_prepare"
  /\ UNCHANGED <<environ, api_key, service, file_paths, output_dir,
                 include_image_base64, idx, results, exc, ret, fs, events,
                 wrote, raisedLog>>

\* faulty variant: the loop ends after the first failed item
LoopExitAfterFailure ==
  /\ pc = "loop"
  /\ \/ idx > Len(file_paths)
     \/ Len(raisedLog) > 0 /\ raisedLog[Len(raisedLog)] # None
  /\ pc' = "done"
  /\ UNCHANGED <<environ, api_key, service, file_paths, output_dir,
                 include_image_base64, idx, results, frame, exc, ret, fs,
                 events, wrote, calls, raisedLog>>

\* return results
LoopExit ==
  /\ pc = "loop"
  /\ idx > Len(file_paths)
  /\ pc' = "done"
  /\ UNCHANGED <<environ, api_key, service, file_paths, output_dir,
                 include_image_base64, idx, results, frame, exc, ret, fs,
                 events, wrote, calls, raisedLog>>

\* the loop body is done with a call: the locals of process_file, its return
\* value and the caught exception are gone
CallEnds ==
  /\ frame' = NoFrame
  /\ exc' = None
  /\ ret' = None
  /\ events' = << >>
  /\ wrote' = {}

\* results.append(result)
AppendResult ==
  /\ pc = "returned"
  /\ results' = Append(results, ret)
  /\ raisedLog' = Append(raisedLog, None)
  /\ idx' = idx + 1
  /\ pc' = "loop"
  /\ CallEnds
  /\ UNCHANGED <<environ, api_key, service, file_paths, output_dir,
                 include_image_base64, fs, calls>>

\* faulty variant: the error is the exception's type name, not str(e)
FailedResultTypeName(e, file_path) ==
  OCRResult("",
            [error |-> e.type,
             provider |-> provider_name,
             source_file |-> PathStr(file_path),
             success |-> FALSE],
            None)

\* the failed result of the except clause
FailedResult(e, file_path) ==
  OCRResult("",
            [error |-> Str(e),
             provider |-> provider_name,
             source_file |-> PathStr(file_path),
             success |-> FALSE],
            None)

\* faulty variant: the except clause skips the item without appending a Result
CatchSkips ==
  /\ pc = "raised"
  /\ raisedLog' = Append(raisedLog, exc)
  /\ idx' = idx + 1
  /\ pc' = "loop"
  /\ CallEnds
  /\ UNCHANGED <<environ, api_key, service, file_paths, output_dir,
                 include_image_base64, results, fs, calls>>

\* except Exception as e: results.append(failed_result)
CatchException ==
  /\ pc = "raised"
  /\ results' = Append(results, FailedResult(exc, file_paths[idx]))
  /\ raisedLog' = Append(raisedLog, exc)
  /\ idx' = idx + 1
  /\ pc' = "loop"
  /\ CallEnds
  /\ UNCHANGED <<environ, api_key, service, file_paths, output_dir,
                 include_image_base64, fs, calls>>

\* ----------------------------------------------------------- process_file
\* an exception leaves process_file: nothing in it catches
Raise(e, evs) ==
  /\ exc' = e
  /\ events' = events \o evs
  /\ pc' = "raised"

\* image branch: _encode_file_to_base64 and the image_url document
PrepareImage ==
  /\ pc = "pf_prepare"
  /\ _is_image_file(frame.file_path)
  /\ \/ /\ frame' = [frame EXCEPT !.document = ImageDocument(frame.file_path)]
        /\ events' = Append(events, Event("read", TRUE))
        /\ pc' = "pf_ocr"
        /\ UNCHANGED exc
     \/ \E e \in OpenErrors(frame.file_path) :
        /\ Raise(EncodeRaises(frame.file_path, e), << Event("read", FALSE) >>)
        /\ UNCHANGED frame
  /\ UNCHANGED <<environ, api_key, service, file_paths, output_dir,
                 include_image_base64, idx, results, ret, fs, wrote, calls,
                 raisedLog>>

\* document branch: open(file_path, "rb") and client.files.upload
UploadDocument ==
  /\ pc = "pf_prepare"
  /\ ~_is_image_file(frame.file_path)
  /\ \/ /\ frame' = [frame EXCEPT !.uploaded_file = UploadedFile(frame.file_path)]
        /\ events' = events \o << Event("read", TRUE), Event("upload", TRUE) >>
        /\ pc' = "pf_signed"
        /\ UNCHANGED exc
     \/ \E e \in OpenErrors(frame.file_path) :
        /\ Raise(e, << Event("read", FALSE) >>)
        /\ UNCHANGED frame
     \/ \E e \in RemoteErrors :
        /\ Raise(e, << Event("read", TRUE), Event("upload", FALSE) >>)
        /\ UNCHANGED frame
  /\ UNCHANGED <<environ, api_key, service, file_paths, output_dir,
                 include_image_base64, idx, results, ret, fs, wrote, calls,
                 raisedLog>>

\* client.files.get_signed_url and the document_url document
GetSignedUrl ==
  /\ pc = "pf_signed"
  /\ \/ /\ frame' = [frame EXCEPT
                       !.document = DocumentUrl(SignedUrl(frame.uploaded_file))]
        /\ events' = Append(events, Event("get_signed_url", TRUE))
        /\ pc' = "pf_ocr"
        /\ UNCHANGED exc
     \/ \E e \in RemoteErrors :
        /\ Raise(e, << Event("get_signed_url", FALSE) >>)
        /\ UNCHANGED frame
  /\ UNCHANGED <<environ, api_key, service, file_paths, output_dir,
                 include_image_base64, idx, results, ret, fs, wrote, calls,
                 raisedLog>>

\* client.ocr.process, then content and metadata from the response
OcrProcess ==
  /\ pc = "pf_ocr"
  /\ \/ \E r \in Responses :
        IF HasPages(r)
        THEN /\ frame' = [frame EXCEPT
                            !.content = _extract_content_from_response(r),
                            !.metadata = _create_metadata(service, r,
                                           frame.file_path, include_image_base64)]
             /\ events' = Append(events, Event("ocr", TRUE))
             /\ pc' = "pf_save"
             /\ UNCHANGED exc
        ELSE /\ Raise(Exception("AttributeError",
                                "'OCRResponse' object has no attribute 'pages'"),
                      << Event("ocr", TRUE) >>)
             /\ UNCHANGED frame
     \/ \E e \in RemoteErrors :
        /\ Raise(e, << Event("ocr", FALSE) >>)
        /\ UNCHANGED frame
  /\ UNCHANGED <<environ, api_key, service, file_paths, output_dir,
                 include_image_base64, idx, results, ret, fs, wrote, calls,
                 raisedLog>>

\* if output_dir: output_dir.mkdir(parents=True, exist_ok=True)
Mkdir ==
  /\ pc = "pf_save"
  /\ output_dir # None
  /\ \/ /\ fs' = [fs EXCEPT !.dirs = @ \cup {output_dir.some}]
        /\ events' = Append(events, Event("mkdir", TRUE))
        /\ pc' = "pf_write_md"
        /\ UNCHANGED exc
     \/ \E e \in WriteErrors :
        /\ Raise(e, << Event("mkdir", FALSE) >>)
        /\ UNCHANGED fs
  /\ UNCHANGED <<environ, api_key, service, file_paths, output_dir,
                 include_image_base64, idx, results, frame, ret, wrote, calls,
                 raisedLog>>

\* output_path.write_text(content, encoding="utf-8")
WriteMd ==
  /\ pc = "pf_write_md"
  /\ LET output_path == MdPath(output_dir.some, frame.file_path) IN
     \/ /\ fs' = [fs EXCEPT !.files = WriteFile(@, PathStr(output_path), frame.content)]
        /\ wrote' = wrote \cup {PathStr(output_path)}
        /\ frame' = [frame EXCEPT !.output_path = output_path]
        /\ events' = Append(events, Event("write_md", TRUE))
        /\ pc' = "pf_write_json"
        /\ UNCHANGED exc
     \/ \E e \in WriteErrors :
        /\ Raise(e, << Event("write_md", FALSE) >>)
        /\ UNCHANGED <<fs, wrote, frame>>
  /\ UNCHANGED <<environ, api_key, service, file_paths, output_dir,
                 include_image_base64, idx, results, ret, calls, raisedLog>>

\* faulty variant: a failure of the metadata write is swallowed
WriteJsonSwallows ==
  /\ pc = "pf_write_json"
  /\ LET metadata_path == JsonPath(output_dir.some, frame.file_path) IN
     \/ /\ fs' = [fs EXCEPT !.files = WriteFile(@, PathStr(metadata_path),
                                                JsonDump(frame.metadata))]
        /\ wrote' = wrote \cup {PathStr(metadata_path)}
        /\ events' = Append(events, Event("write_json", TRUE))
     \/ /\ events' = Append(events, Event("write_json", FALSE))
        /\ UNCHANGED <<fs, wrote>>
  /\ pc' = "pf_return"
  /\ UNCHANGED <<environ, api_key, service, file_paths, output_dir,
                 include_image_base64, idx, results, frame, exc, ret, calls,
                 raisedLog>>

\* with metadata_path.open("w") as f: json.dump(metadata, f, ...)
WriteJson ==
  /\ pc = "pf_write_json"
  /\ LET metadata_path == JsonPath(output_dir.some, frame.file_path) IN
     \/ /\ fs' = [fs EXCEPT !.files = WriteFile(@, PathStr(metadata_path),
                                                JsonDump(frame.metadata))]
        /\ wrote' = wrote \cup {PathStr(metadata_path)}
        /\ events' = Append(events, Event("write_json", TRUE))
        /\ pc' = "pf_return"
        /\ UNCHANGED exc
     \/ \E e \in WriteErrors :
        /\ Raise(e, << Event("write_json", FALSE) >>)
        /\ UNCHANGED <<fs, wrote>>
  /\ UNCHANGED <<environ, api_key, service, file_paths, output_dir,
                 include_image_base64, idx, results, frame, ret, calls,
                 raisedLog>>

\* return OCRResult(content=content, metadata=metadata, output_path=output_path)
Return ==
  /\ \/ pc = "pf_return"
     \/ pc = "pf_save" /\ output_dir = None
  /\ ret' = OCRResult(frame.content, frame.metadata, frame.output_path)
  /\ pc' = "returned"
  /\ UNCHANGED <<environ, api_key, service, file_paths, output_dir,
                 include_image_base64, idx, results, frame, exc, fs, events,
                 wrote, calls, raisedLog>>

Next ==
  \/ Construct
  \/ ProcessFiles
  \/ LoopCall
  \/ LoopExit
  \/ AppendResult
  \/ CatchException
  \/ PrepareImage
  \/ UploadDocument
  \/ GetSignedUrl
  \/ OcrProcess
  \/ Mkdir
  \/ WriteMd
  \/ WriteJson
  \/ Return

Spec == Init /\ [][Next]_vars


\* ---------------------------------------------------------------- claims
HasError(r) == "error" \in DOMAIN r.metadata
HasSuccessFalse(r) == "success" \in DOMAIN r.metadata /\ r.metadata.success = FALSE
FailureMarker(r) == HasError(r) \/ HasSuccessFalse(r)
InBatch == pc \notin {"start", "config_error", "client_error", "ready"}
FailedEvent == \E i \in 1..Len(events) : ~events[i].ok
EventAt(op, ok) == { i \in 1..Len(events) : events[i] = Event(op, ok) }

\* C1: process_files returns exactly one Result per input path, the Result
\* at index i being the one produced for file_paths[i], whatever fails.
C1_OneResultPerInputInOrder ==
  /\ InBatch => Len(results) <= Len(file_paths)
  /\ pc = "loop" => Len(results) = idx - 1
  /\ pc = "done" => Len(results) = Len(file_paths)
  /\ \A i \in 1..Len(results) :
       results[i].metadata.source_file = PathStr(file_paths[i])

C1_Witness ==
  /\ pc = "done"
  /\ Len(file_paths) = 3
  /\ file_paths[1] = file_paths[3]
  /\ raisedLog[1] = None
  /\ raisedLog[2] # None
  /\ Len(results) = 3

\* C2: the Result of an input whose process_file call raised has empty
\* content, no output_path, and metadata with the description of the raised
\* failure, the provider name, that input's path and success = false.
C2_FailedResultShape ==
  \A i \in 1..Len(results) :
    raisedLog[i] # None =>
      /\ results[i].content = ""
      /\ results[i].output_path = None
      /\ DOMAIN results[i].metadata = {"error", "provider", "source_file", "success"}
      /\ results[i].metadata.error = raisedLog[i].msg
      /\ results[i].metadata.provider = "mistral"
      /\ results[i].metadata.source_file = PathStr(file_paths[i])
      /\ results[i].metadata.success = FALSE

C2_Witness ==
  /\ pc = "done"
  /\ Len(results) = 2
  /\ raisedLog[2] # None
  /\ raisedLog[2].type = "SDKError"
  /\ results[2].metadata.success = FALSE

IOErrorTypes == {"FileNotFoundError", "PermissionError", "RuntimeError"}

\* C3: process_file is invoked once per input path, one at a time and in
\* input order, whatever earlier calls did; with three inputs of which only
\* the second is unreadable, Results 1 and 3 are successful and Result 2 is
\* the failed Result with the I/O error description.
C3_EveryInputProcessedInOrder ==
  /\ Len(calls) <= Len(file_paths)
  /\ \A i \in 1..Len(calls) : calls[i] = file_paths[i]
  /\ Len(raisedLog) = Len(results)
  /\ Len(calls) - Len(results) \in {0, 1}
  /\ pc = "loop" => Len(calls) = Len(results)
  /\ pc = "done" => calls = file_paths
  /\ ( /\ pc = "done"
       /\ Len(file_paths) = 3
       /\ raisedLog[1] = None
       /\ raisedLog[2] # None
       /\ raisedLog[3] = None )
     => /\ ~FailureMarker(results[1])
        /\ ~FailureMarker(results[3])
        /\ HasSuccessFalse(results[2])
        /\ results[2].metadata.error = raisedLog[2].msg

C3_Witness ==
  /\ pc = "done"
  /\ Len(file_paths) = 3
  /\ raisedLog[1] = None
  /\ raisedLog[2] # None
  /\ raisedLog[2].type \in IOErrorTypes
  /\ raisedLog[3] = None
  /\ results[2].metadata.error = "File not found: b/x.PNG"

\* C4: a Result with a failure marker (success = false, or an error key) has
\* empty content and no output_path; a Result process_file returned has no
\* error key and no success = false.
C4_FailureMarkerInvariant ==
  /\ \A i \in 1..Len(results) :
       FailureMarker(results[i]) =>
         results[i].content = "" /\ results[i].output_path = None
  /\ ret # None =>
       /\ ~HasError(ret)
       /\ ~HasSuccessFalse(ret)
  /\ \A i \in 1..Len(results) :
       raisedLog[i] = None => ~FailureMarker(results[i])

C4_Witness ==
  /\ pc = "done"
  /\ \E i \in 1..Len(results) : FailureMarker(results[i])
  /\ \E i \in 1..Len(results) :
       /\ ~FailureMarker(results[i])
       /\ results[i].content = ""
       /\ results[i].output_path # None

NothingTouched ==
  /\ events = << >>
  /\ calls = << >>
  /\ fs = [dirs |-> {}, files |-> EmptyFiles]
  /\ results = << >>
NoCredential ==
  /\ api_key \in {None, Some("")}
  /\ environ \in {None, Some("")}

\* C5: constructing the service with no credential in the api_key argument
\* or the environment raises the configuration error at once: no service
\* object exists, nothing was read, uploaded, written or sent, and no batch
\* ever starts.
C5_NoCredentialFailsAtConstruction ==
  /\ [][ (pc = "start" /\ NoCredential) =>
           /\ pc' = "config_error"
           /\ exc'.type = "ValueError"
           /\ service' = None
           /\ NothingTouched' ]_vars
  /\ [][ pc = "config_error" => pc' = "config_error" /\ service' = None ]_vars
  /\ [](pc = "config_error" => service = None /\ NothingTouched)
  /\ [](InBatch => service # None /\ service.api_key # "")

C5_Witness ==
  /\ pc = "config_error"
  /\ api_key = Some("")
  /\ environ = None
  /\ service = None

\* C6: process_file never swallows a failure: when a step of it fails it
\* raises and returns no Result, and a Result it returns carries no failure
\* marker.
C6_FailuresPropagate ==
  /\ FailedEvent =>
       /\ pc = "raised"
       /\ ret = None
       /\ exc # None
  /\ pc = "raised" => ret = None /\ exc # None
  /\ pc = "returned" =>
       /\ ~FailedEvent
       /\ exc = None
       /\ ret # None
       /\ ~FailureMarker(ret)
  /\ \A i \in 1..Len(results) :
       raisedLog[i] = None <=> ~FailureMarker(results[i])

C6_Witness ==
  /\ pc = "raised"
  /\ EventAt("write_json", FALSE) # {}
  /\ ret = None

ExpectedMd(p) == output_dir.some \o "/" \o p.stem \o ".ocr.md"
ExpectedJson(p) == output_dir.some \o "/" \o p.stem \o ".ocr.json"

\* C7: a Result has an output_path exactly when output_dir was supplied and
\* both output files were written; after process_file returns with
\* output_dir set, the directory exists and holds <stem>.ocr.md with the
\* content and <stem>.ocr.json with the metadata, and output_path is the
\* .ocr.md file; without output_dir nothing is created.
C7_OutputPathIffPersisted ==
  /\ pc = "returned" =>
       ( ret.output_path # None <=>
           /\ output_dir # None
           /\ wrote = {ExpectedMd(frame.file_path), ExpectedJson(frame.file_path)} )
  /\ (pc = "returned" /\ output_dir # None) =>
       /\ output_dir.some \in fs.dirs
       /\ ret.output_path # None
       /\ PathStr(ret.output_path) = ExpectedMd(frame.file_path)
       /\ Exists(ExpectedMd(frame.file_path))
       /\ Exists(ExpectedJson(frame.file_path))
       /\ fs.files[ExpectedMd(frame.file_path)] = ret.content
       /\ JsonLoad(fs.files[ExpectedJson(frame.file_path)]) = ret.metadata
       /\ Len(calls) = 1 =>
            DOMAIN fs.files = {ExpectedMd(frame.file_path), ExpectedJson(frame.file_path)}
  /\ \A i \in 1..Len(results) :
       results[i].output_path # None => output_dir # None /\ raisedLog[i] = None
  /\ output_dir = None => fs = [dirs |-> {}, files |-> EmptyFiles] /\ wrote = {}
  /\ \A f \in wrote : Exists(f)

C7_Witness ==
  /\ pc = "returned"
  /\ output_dir = Some("out")
  /\ file_paths = << MkPath("b", "y", ".jpg") >>
  /\ ret.content = "A\n\nB"
  /\ PathStr(ret.output_path) = "out/y.ocr.md"
  /\ DOMAIN fs.files = {"out/y.ocr.md", "out/y.ocr.json"}

DistinctInputs ==
  \A i, j \in 1..Len(file_paths) : file_paths[i] = file_paths[j] => i = j

\* C8: at the end of a batch run with output_dir set, for every successful
\* Result the file at its output_path still holds that Result's content and
\* the sibling metadata file still holds its metadata; stated for the input
\* lists the claim singles out, those of pairwise distinct paths (two of
\* which may share a base name).
C8_OutputsOfEarlierItemsKept ==
  (pc = "done" /\ output_dir # None /\ DistinctInputs) =>
    \A i \in 1..Len(results) :
      ~FailureMarker(results[i]) =>
        /\ Exists(ExpectedMd(file_paths[i]))
        /\ fs.files[ExpectedMd(file_paths[i])] = results[i].content
        /\ Exists(ExpectedJson(file_paths[i]))
        /\ JsonLoad(fs.files[ExpectedJson(file_paths[i])]) = results[i].metadata

ImageSuffixesInUse == {".PNG", ".jpg"}
ImageSteps == << "read", "ocr", "mkdir", "write_md", "write_json" >>
DocumentSteps == << "read", "upload", "get_signed_url", "ocr", "mkdir",
                    "write_md", "write_json" >>
\* the operations done so far are the first ones of steps, each one started
\* only after the one before it succeeded
FollowsSteps(steps) ==
  /\ Len(events) <= Len(steps)
  /\ \A i \in 1..Len(events) :
       /\ events[i].op = steps[i]
       /\ i < Len(events) => events[i].ok

\* C9: the steps of a process_file call come in the order the extension
\* fixes: an image is read and sent inline, with no upload and no signed-URL
\* fetch; a document is uploaded, then its signed URL is fetched; the OCR
\* call happens at most once and only after the reference was obtained; the
\* output directory and files are created only after the OCR call returned.
C9_StepsInFixedOrder ==
  /\ frame.file_path # None =>
       IF frame.file_path.suffix \in ImageSuffixesInUse
       THEN FollowsSteps(ImageSteps)
       ELSE FollowsSteps(DocumentSteps)
  /\ wrote # {} => Event("ocr", TRUE) \in { events[i] : i \in 1..Len(events) }
  /\ output_dir = None => \A i \in 1..Len(events) :
       events[i].op \notin {"mkdir", "write_md", "write_json"}

C9_Witness ==
  /\ pc = "returned"
  /\ frame.file_path = MkPath("a", "x", ".pdf")
  /\ events = << Event("read", TRUE), Event("upload", TRUE),
                 Event("get_signed_url", TRUE), Event("ocr", TRUE),
                 Event("mkdir", TRUE), Event("write_md", TRUE),
                 Event("write_json", TRUE) >>

\* C10: after a process_file call with output_dir supplied, returned or
\* raised, either both <stem>.ocr.md and <stem>.ocr.json were written by
\* that call or neither was; a failed item leaves no output file.
C10_PersistenceAllOrNothing ==
  (pc \in {"returned", "raised"} /\ output_dir # None) =>
    /\ ExpectedMd(frame.file_path) \in wrote <=> ExpectedJson(frame.file_path) \in wrote
    /\ pc = "raised" => wrote = {}

====
